---- MODULE Spec2Model ----
(***************************************************************************)
(* A model of the Concourse client of src/concourse.go: the token cache    *)
(* (Client.Token), the run-once setup (Client.Do, Client.APIPath), the     *)
(* list fetch (getList) and the build event stream (Client.BuildEvents,    *)
(* sendBuildEvents).                                                       *)
(***************************************************************************)
EXTENDS Integers, Sequences, FiniteSets, TLC

(* ------------------------------ bounds --------------------------------- *)
\* Number of goroutines that call the client concurrently.
NThreads == 2
\* Calls of the client's public methods, over all goroutines.
MaxCalls == 3
\* The clock runs from 0 to MaxTime.
MaxTime == 3
\* Longest transport event sequence of a build event stream.
MaxFeed == 3
\* Longest response body of a list fetch, in JSON array elements.
MaxBody == 2

(* ----------------------------- constants ------------------------------- *)
\* oauth2's expiry margin (10 s), in clock units of 5 s; Token.Valid is
\* called at src/concourse.go:70.
ExpiryDelta == 2
\* http.StatusOK
StatusOK == 200

Threads == 1 .. NThreads

\* The token lifetimes the identity provider grants, in clock units; 0 is a
\* token with no expiry (a zero Expiry).
Lifetimes == {0, 3}

\* A nil *oauth2.Token.
NilToken == [id |-> 0, expiry |-> 0]

\* An environment variable that is not set.
Unset == "unset"

\* The configuration a program may give the client before its first use, and
\* the process environments it may run in. "badurl" stands for a URL that
\* http.NewRequestWithContext refuses to parse.
Cfgs == [URL : {"", "url", "badurl"}, Username : {"", "user"},
         Password : {"", "pass"}]
Envs == [CONCOURSE_URL : {Unset, "", "envurl"},
         CONCOURSE_USERNAME : {Unset, "", "envuser"},
         CONCOURSE_PASSWORD : {Unset, "", "envpass"}]

\* The fields of the client that loadEnvironment looks at, and the
\* environment variable of each.
Fields == {"URL", "Username", "Password"}
EnvVar == [URL |-> "CONCOURSE_URL", Username |-> "CONCOURSE_USERNAME",
           Password |-> "CONCOURSE_PASSWORD"]

\* The statuses the service answers with.
Statuses == {StatusOK, 404}

\* A response body of a list endpoint, as the elements between its brackets:
\* "rec" is a JSON object of the record type, "mis" a JSON value of another
\* type, "junk" bytes that are not JSON. The empty sequence is a body of no
\* bytes.
Chunks == {"rec", "mis", "junk"}
Bodies == UNION {[1 .. n -> Chunks] : n \in 0 .. MaxBody}

\* What the event-stream reader of a build yields, read after read: an event
\* with a payload that decodes ("A", "B") or does not ("bad"), the event
\* named "end", or a failed read ("err").
Kinds == {"A", "B", "bad", "end", "err"}
Feeds == UNION {[1 .. n -> Kinds] : n \in 0 .. MaxFeed}

VARIABLES
    cfg,                 \* Client.URL, Client.Username, Client.Password
    env,                 \* the process environment
    runLoadEnvironment,  \* sync.Once: "new", "running" or "done"
    runSetupClient,      \* sync.Once: "new", "running" or "done"
    transport,           \* oauth2.Transport wrappers around the base transport
    loadRuns,            \* executions of loadEnvironment so far
    setupRuns,           \* executions of setupClient so far
    token,      \* Client.token: the cached *oauth2.Token
    now,        \* the wall clock that Token.Valid reads
    exchanges,  \* password-grant exchanges attempted so far
    rejects,    \* whether the identity provider has rejected an exchange
    stored,     \* id of the token handed to the latest client.token.Store
    th,         \* each goroutine: its position and its locals
    s,          \* the event stream of the latest BuildEvents call
    nTasks,     \* sendBuildEvents goroutines started so far
    calls       \* calls of public methods made so far

clientVars == <<cfg, env, runLoadEnvironment, runSetupClient, transport,
                loadRuns, setupRuns>>
tokenVars == <<token, now, exchanges, rejects, stored>>
streamVars == <<s, nTasks>>
vars == <<cfg, env, runLoadEnvironment, runSetupClient, transport, loadRuns,
          setupRuns, token, now, exchanges, rejects, stored, th, s, nTasks,
          calls>>

(* ------------------------------ Token ---------------------------------- *)
\* oauth2.Token.Valid at clock value `at`: non-nil, and not within
\* ExpiryDelta of its expiry (a zero expiry never expires).
Valid(tk, at) ==
    /\ tk.id # 0
    /\ (tk.expiry = 0 \/ ~(tk.expiry - ExpiryDelta < at))

\* A slip in that condition: the negation of Valid is lost.
NeedsExchangeNegationLost(tk, at) == tk = NilToken \/ Valid(tk, at)

\* The condition of Client.Token under which it exchanges.
NeedsExchange(tk, at) == tk = NilToken \/ ~Valid(tk, at)

\* What a Token call found in the cache: nothing, a token that is no longer
\* valid, or a valid one.
Saw(tk, at) ==
    IF tk = NilToken THEN "nil" ELSE IF Valid(tk, at) THEN "valid" ELSE "stale"

\* The clock has not reached the token's expiry instant.
BeforeExpiry(tk, at) == tk # NilToken /\ (tk.expiry = 0 \/ at < tk.expiry)

\* A goroutine: pc and op are its position (op is the public method it is
\* in), token its local of Client.Token, err the error it returns. The
\* rest records what its current call did: nx the exchanges it attempted,
\* saw and early what it loaded, mine whether the cache still holds what it
\* stored.
\* xid is the id of the token its exchange was granted. What a call of
\* Token, Do or APIPath returns is in the locals at its return statement; a
\* goroutine back from one keeps nothing. Inside Do: in is the
\* function whose sync.Once it runs, layer the oauth2.Transport wrappers its
\* request has still to pass, auth whether the request carries a token, url
\* the client.URL its path was built from, status the response status, body
\* what it read of the response body, recs the records it returns, errStatus
\* and errBody the fields of the httpError it returns, spawned whether it
\* started a sendBuildEvents goroutine, sent the requests it handed to the
\* base transport.
IdleThread ==
    [pc |-> "idle", op |-> "none", token |-> NilToken, nx |-> 0,
     xid |-> 0, saw |-> "none", early |-> FALSE, err |-> "",
     mine |-> FALSE, in |-> "", layer |-> 0, auth |-> FALSE, url |-> "",
     status |-> 0, out |-> "", body |-> <<>>, bodyRead |-> FALSE,
     recs |-> <<>>, errStatus |-> 0, errBody |-> <<>>, spawned |-> FALSE,
     sent |-> 0]

\* A goroutine enters public method `op` at position `pc`.
Begin(t, op, pc) ==
    /\ th[t].pc = "idle"
    /\ calls < MaxCalls
    /\ calls' = calls + 1
    /\ th' = [th EXCEPT ![t] = [IdleThread EXCEPT !.pc = pc, !.op = op]]

InitToken ==
    /\ token = NilToken
    /\ now = 0
    /\ exchanges = 0
    /\ rejects = FALSE
    /\ stored = 0

\* No event stream: no sendBuildEvents goroutine, no channel, no reader.
\* Of a stream: pc is the goroutine's position, feed what its reader will
\* yield, pos the reads done, event the name and payload read last, message
\* the decoded BuildEvent, delivered what the consumer has received, closed
\* whether the channel is closed, closes how many times close(c) ran,
\* rcClosed whether the reader is closed,
\* cancelled whether the caller's context is. Of the moment the context was
\* cancelled: cancelAt is where the goroutine was (see CancelAt), cancelPos
\* the reads it had done; late counts the events the consumer received
\* after that moment.
NoStream ==
    [pc |-> "none", feed |-> <<>>, pos |-> 0, event |-> "", message |-> "",
     delivered |-> <<>>, closed |-> FALSE, rcClosed |-> FALSE,
     cancelled |-> FALSE, cancelAt |-> "", cancelPos |-> 0, late |-> 0,
     closes |-> 0]

InitThreads ==
    /\ th = [t \in Threads |-> IdleThread]
    /\ calls = 0
    /\ s = NoStream
    /\ nTasks = 0

\* The clock advances.
Tick ==
    /\ now < MaxTime
    /\ now' = now + 1
    /\ UNCHANGED <<token, exchanges, rejects, stored, th>>
    /\ UNCHANGED <<clientVars, streamVars, calls>>

\* A goroutine calls the public method Client.Token.
CallToken(t) ==
    /\ Begin(t, "Token", "Token")
    /\ UNCHANGED <<clientVars, tokenVars, streamVars>>

\* token := client.token.Load(); if token == nil || !token.Valid()
TokenLoad(t) ==
    /\ th[t].pc = "Token"
    /\ th' = [th EXCEPT ![t].token = token, ![t].saw = Saw(token, now),
                        ![t].early = BeforeExpiry(token, now),
                        ![t].pc = IF NeedsExchange(token, now)
                                  THEN "skyMarshalToken" ELSE "TokenReturn"]
    /\ UNCHANGED <<clientVars, tokenVars, streamVars, calls>>

\* skyMarshalToken succeeds: the identity provider, reached at client.URL
\* (a token endpoint built from an empty URL has no host to reach), grants
\* a fresh token.
ExchangeOK(t) ==
    /\ th[t].pc = "skyMarshalToken"
    /\ cfg.URL # ""
    /\ \E life \in Lifetimes :
          th' = [th EXCEPT ![t].token =
                               [id |-> exchanges + 1,
                                expiry |-> IF life = 0 THEN 0 ELSE now + life],
                           ![t].nx = @ + 1, ![t].xid = exchanges + 1,
                           ![t].pc = "Store"]
    /\ exchanges' = exchanges + 1
    /\ UNCHANGED <<token, now, rejects, stored>>
    /\ UNCHANGED <<clientVars, streamVars, calls>>

\* A slip in Client.Token: a rejected exchange empties the cache.
ExchangeRejectedClears(t) ==
    /\ th[t].pc = "skyMarshalToken"
    /\ th' = [th EXCEPT ![t].token = NilToken, ![t].nx = @ + 1,
                        ![t].err = "auth", ![t].pc = "TokenReturn"]
    /\ exchanges' = exchanges + 1
    /\ rejects' = TRUE
    /\ token' = NilToken
    /\ UNCHANGED <<now, stored>>
    /\ UNCHANGED <<clientVars, streamVars, calls>>

\* skyMarshalToken fails: return nil, err.
ExchangeRejected(t) ==
    /\ th[t].pc = "skyMarshalToken"
    /\ th' = [th EXCEPT ![t].token = NilToken, ![t].nx = @ + 1,
                        ![t].err = "auth", ![t].pc = "TokenReturn"]
    /\ exchanges' = exchanges + 1
    /\ rejects' = TRUE
    /\ UNCHANGED <<token, now, stored>>
    /\ UNCHANGED <<clientVars, streamVars, calls>>

\* A slip in Client.Token: the fresh token is stored only into an empty
\* cache (a CompareAndSwap from nil in place of the Store).
TokenStoreIfEmpty(t) ==
    /\ th[t].pc = "Store"
    /\ token' = IF token = NilToken THEN th[t].token ELSE token
    /\ stored' = th[t].token.id
    /\ th' = [th EXCEPT ![t].mine = TRUE, ![t].pc = "TokenReturn"]
    /\ UNCHANGED <<now, exchanges, rejects>>
    /\ UNCHANGED <<clientVars, streamVars, calls>>

\* A slip in Client.Token: the fresh token is stored only when it is newer
\* than the cached one.
TokenStoreIfNewer(t) ==
    /\ th[t].pc = "Store"
    /\ token' = IF th[t].token.id > token.id THEN th[t].token ELSE token
    /\ stored' = th[t].token.id
    /\ th' = [th EXCEPT ![t].mine = TRUE, ![t].pc = "TokenReturn"]
    /\ UNCHANGED <<now, exchanges, rejects>>
    /\ UNCHANGED <<clientVars, streamVars, calls>>

\* client.token.Store(token)
TokenStore(t) ==
    /\ th[t].pc = "Store"
    /\ token' = th[t].token
    /\ stored' = th[t].token.id
    /\ th' = [u \in Threads |->
                IF u = t THEN [th[u] EXCEPT !.mine = TRUE, !.pc = "TokenReturn"]
                ELSE [th[u] EXCEPT !.mine = FALSE]]
    /\ UNCHANGED <<now, exchanges, rejects>>
    /\ UNCHANGED <<clientVars, streamVars, calls>>

\* return token, nil (or nil, err) to the caller of the public method.
TokenReturn(t) ==
    /\ th[t].pc = "TokenReturn"
    /\ th[t].op = "Token"
    /\ th' = [th EXCEPT ![t] = IdleThread]
    /\ UNCHANGED <<clientVars, tokenVars, streamVars, calls>>

(* ------------------------- run-once set-up ----------------------------- *)
\* A slip in a run-once guard: a caller that finds the function running runs
\* it too instead of waiting.
OnceMayRunUnlocked(once) == once # "done"

\* sync.Once.Do runs the function for the first caller only.
OnceMayRun(once) == once = "new"

\* A slip in a run-once guard: a caller that finds the function running
\* goes on without waiting for it.
OnceDoneOrRunning(once) == once # "new"

\* sync.Once.Do returns at once when the function has run.
OnceDone(once) == once = "done"

\* A slip in loadEnvironment: a variable that is set overrides the field.
FillInAlways(field, value) == IF value # Unset THEN value ELSE field

\* One field of loadEnvironment: the environment's value when the variable
\* is set and the field is empty.
FillIn(field, value) == IF value # Unset /\ field = "" THEN value ELSE field

\* client.runLoadEnvironment.Do(client.loadEnvironment), called in `fn`:
\* the first caller goes on to run loadEnvironment, a caller that finds it
\* running waits, a later caller passes.
OnceLoadEnvironment(t, fn, after) ==
    /\ OnceMayRun(runLoadEnvironment) \/ OnceDone(runLoadEnvironment)
    /\ runLoadEnvironment' = IF OnceDone(runLoadEnvironment)
                             THEN runLoadEnvironment ELSE "running"
    /\ th' = [th EXCEPT ![t].in = fn,
                        ![t].pc = IF OnceDone(runLoadEnvironment)
                                  THEN after ELSE "loadEnvironment"]
    /\ UNCHANGED <<cfg, env, runSetupClient, transport, loadRuns, setupRuns>>
    /\ UNCHANGED <<tokenVars, streamVars, calls>>

\* A goroutine calls Client.APIPath.
CallAPIPath(t) ==
    /\ Begin(t, "APIPath", "APIPath")
    /\ UNCHANGED <<clientVars, tokenVars, streamVars>>

\* A slip in APIPath: it wraps the transport as Do does.
APIPathOnceWraps(t) ==
    /\ th[t].pc = "APIPath"
    /\ OnceMayRun(runLoadEnvironment) \/ OnceDone(runLoadEnvironment)
    /\ runLoadEnvironment' = IF OnceDone(runLoadEnvironment)
                             THEN runLoadEnvironment ELSE "running"
    /\ th' = [th EXCEPT ![t].in = "APIPath",
                        ![t].pc = IF OnceDone(runLoadEnvironment)
                                  THEN "APIPathReturn" ELSE "loadEnvironment"]
    /\ transport' = IF runSetupClient = "new" THEN transport + 1 ELSE transport
    /\ setupRuns' = IF runSetupClient = "new" THEN setupRuns + 1 ELSE setupRuns
    /\ runSetupClient' = "done"
    /\ UNCHANGED <<cfg, env, loadRuns>>
    /\ UNCHANGED <<tokenVars, streamVars, calls>>

\* APIPath: client.runLoadEnvironment.Do(client.loadEnvironment)
APIPathOnce(t) ==
    /\ th[t].pc = "APIPath"
    /\ OnceLoadEnvironment(t, "APIPath", "APIPathReturn")

\* loadEnvironment, and the Once marking it done.
LoadEnvironment(t) ==
    /\ th[t].pc = "loadEnvironment"
    /\ cfg' = [URL |-> FillIn(cfg.URL, env.CONCOURSE_URL),
               Username |-> FillIn(cfg.Username, env.CONCOURSE_USERNAME),
               Password |-> FillIn(cfg.Password, env.CONCOURSE_PASSWORD)]
    /\ loadRuns' = loadRuns + 1
    /\ runLoadEnvironment' = "done"
    /\ th' = [th EXCEPT ![t].pc = IF th[t].in = "APIPath"
                                  THEN "APIPathReturn" ELSE "DoSetup"]
    /\ UNCHANGED <<env, runSetupClient, transport, setupRuns>>
    /\ UNCHANGED <<tokenVars, streamVars, calls>>

\* APIPath returns client.URL + "/" + path.Join("api", "v1", segments...)
APIPathReturn(t) ==
    /\ th[t].pc = "APIPathReturn"
    /\ th[t].op = "APIPath"
    /\ th' = [th EXCEPT ![t] = IdleThread]
    /\ UNCHANGED <<clientVars, tokenVars, streamVars, calls>>

\* A goroutine calls Client.Do with a request of its own.
CallDo(t) ==
    /\ Begin(t, "Do", "Do")
    /\ UNCHANGED <<clientVars, tokenVars, streamVars>>

\* Do: client.runLoadEnvironment.Do(client.loadEnvironment)
DoOnceLoad(t) ==
    /\ th[t].pc = "Do"
    /\ OnceLoadEnvironment(t, "Do", "DoSetup")

\* Do: client.runSetupClient.Do(client.setupClient)
DoOnceSetup(t) ==
    /\ th[t].pc = "DoSetup"
    /\ OnceMayRun(runSetupClient) \/ OnceDone(runSetupClient)
    /\ runSetupClient' = IF OnceDone(runSetupClient)
                         THEN runSetupClient ELSE "running"
    /\ th' = [th EXCEPT ![t].pc = IF OnceDone(runSetupClient)
                                  THEN "ClientDo" ELSE "setupClient"]
    /\ UNCHANGED <<cfg, env, runLoadEnvironment, transport, loadRuns,
                   setupRuns>>
    /\ UNCHANGED <<tokenVars, streamVars, calls>>

\* setupClient wraps the current transport in an oauth2.Transport, and the
\* Once marks it done.
SetupClient(t) ==
    /\ th[t].pc = "setupClient"
    /\ transport' = transport + 1
    /\ setupRuns' = setupRuns + 1
    /\ runSetupClient' = "done"
    /\ th' = [th EXCEPT ![t].pc = "ClientDo"]
    /\ UNCHANGED <<cfg, env, runLoadEnvironment, loadRuns>>
    /\ UNCHANGED <<tokenVars, streamVars, calls>>

\* Do: client.Client.Do(req) hands the request to the client's transport.
ClientDo(t) ==
    /\ th[t].pc = "ClientDo"
    /\ th' = [th EXCEPT ![t].layer = transport,
                        ![t].pc = IF transport > 0
                                  THEN "Token" ELSE "RoundTrip"]
    /\ UNCHANGED <<clientVars, tokenVars, streamVars, calls>>

\* oauth2.Transport.RoundTrip got its token from Client.Token: it fails the
\* request on an error, otherwise sets the bearer token and hands the
\* request to its base transport.
TransportToken(t) ==
    /\ th[t].pc = "TokenReturn"
    /\ th[t].op # "Token"
    /\ th' = [th EXCEPT ![t].token = NilToken,
                        ![t].auth = (th[t].err = ""),
                        ![t].layer = IF th[t].err = "" THEN @ - 1 ELSE @,
                        ![t].pc = IF th[t].err # "" THEN "DoReturn"
                                  ELSE IF th[t].layer > 1 THEN "Token"
                                  ELSE "RoundTrip"]
    /\ UNCHANGED <<clientVars, tokenVars, streamVars, calls>>

\* The base transport sends the request: the service answers with a status,
\* or the request fails (always, when the request was built by APIPath from
\* a URL with no scheme and host).
RoundTrip(t) ==
    /\ th[t].pc = "RoundTrip"
    /\ \E answer \in Statuses \cup {0} :
          /\ th[t].op # "Do" /\ th[t].url = "" => answer = 0
          /\ th' = [th EXCEPT ![t].status = answer, ![t].sent = @ + 1,
                              ![t].err = IF answer = 0 THEN "dispatch" ELSE "",
                              ![t].pc = "DoReturn"]
    /\ UNCHANGED <<clientVars, tokenVars, streamVars, calls>>

\* Do returns the response or the error to the caller of the public method.
DoReturn(t) ==
    /\ th[t].pc = "DoReturn"
    /\ th[t].op = "Do"
    /\ th' = [th EXCEPT ![t] = IdleThread]
    /\ UNCHANGED <<clientVars, tokenVars, streamVars, calls>>

TokenCalled(t) ==
    \/ TokenLoad(t)
    \/ ExchangeOK(t)
    \/ ExchangeRejected(t)
    \/ TokenStore(t)

DoCalled(t) ==
    \/ DoOnceLoad(t)
    \/ LoadEnvironment(t)
    \/ DoOnceSetup(t)
    \/ SetupClient(t)
    \/ ClientDo(t)
    \/ TokenCalled(t)
    \/ TransportToken(t)
    \/ RoundTrip(t)

(* ----------------------------- getList --------------------------------- *)
\* json.Unmarshal of a body into a slice of records: bytes that are not a
\* JSON text fail before anything is decoded; an element of another type is
\* reported, left at its zero value ("zero"), and decoding goes on.
SyntaxOK(body) == body # <<>> /\ \A i \in 1 .. Len(body) : body[i] # "junk"
Decoded(body) ==
    IF SyntaxOK(body)
    THEN [i \in 1 .. Len(body) |-> IF body[i] = "rec" THEN "record" ELSE "zero"]
    ELSE <<>>
DecodeFails(body) ==
    ~SyntaxOK(body) \/ \E i \in 1 .. Len(body) : body[i] = "mis"

\* http.NewRequestWithContext refuses a URL it cannot parse.
NewRequestFails(url) == url = "badurl"

\* A goroutine calls one of the list methods (Teams, Pipelines, ...), each
\* of which is getList; its first step is APIPath.
CallGetList(t) ==
    /\ Begin(t, "getList", "APIPath")
    /\ UNCHANGED <<clientVars, tokenVars, streamVars>>

\* getList and BuildEvents: APIPath returns the path, and
\* http.NewRequestWithContext makes the request or fails.
NewRequest(t) ==
    /\ th[t].pc = "APIPathReturn"
    /\ th[t].op \in {"getList", "BuildEvents"}
    /\ th' = [th EXCEPT ![t].url = cfg.URL,
                        ![t].err = IF NewRequestFails(cfg.URL)
                                   THEN "request" ELSE "",
                        ![t].pc = IF NewRequestFails(cfg.URL)
                                  THEN "idle" ELSE "Do"]
    /\ UNCHANGED <<clientVars, tokenVars, streamVars, calls>>

\* getList: client.Do returned; on an error return nil, err.
GetListDo(t) ==
    /\ th[t].pc = "DoReturn"
    /\ th[t].op = "getList"
    /\ th' = [th EXCEPT ![t].pc = IF th[t].err # "" THEN "idle" ELSE "ReadAll"]
    /\ UNCHANGED <<clientVars, tokenVars, streamVars, calls>>

\* getList: body, err := io.ReadAll(res.Body); on an error return nil, err.
ReadAll(t) ==
    /\ th[t].pc = "ReadAll"
    /\ \E ok \in BOOLEAN, body \in Bodies :
          /\ ~ok => body = <<>>
          /\ th' = [th EXCEPT ![t].body = body, ![t].bodyRead = TRUE,
                              ![t].err = IF ok THEN "" ELSE "read",
                              ![t].pc = IF ok THEN "Status" ELSE "idle"]
    /\ UNCHANGED <<clientVars, tokenVars, streamVars, calls>>

\* A slip in getList: the httpError is built without the body.
GetListStatusNoBody(t) ==
    /\ th[t].pc = "Status"
    /\ th' = [th EXCEPT ![t].err = IF th[t].status # StatusOK
                                   THEN "http" ELSE "",
                        ![t].errStatus = IF th[t].status # StatusOK
                                         THEN th[t].status ELSE 0,
                        ![t].pc = IF th[t].status # StatusOK
                                  THEN "idle" ELSE "Unmarshal"]
    /\ UNCHANGED <<clientVars, tokenVars, streamVars, calls>>

\* getList: a status other than 200 returns nil and an httpError with the
\* status and the body.
GetListStatus(t) ==
    /\ th[t].pc = "Status"
    /\ th' = [th EXCEPT ![t].err = IF th[t].status # StatusOK
                                   THEN "http" ELSE "",
                        ![t].errStatus = IF th[t].status # StatusOK
                                         THEN th[t].status ELSE 0,
                        ![t].errBody = IF th[t].status # StatusOK
                                       THEN th[t].body ELSE <<>>,
                        ![t].pc = IF th[t].status # StatusOK
                                  THEN "idle" ELSE "Unmarshal"]
    /\ UNCHANGED <<clientVars, tokenVars, streamVars, calls>>

\* getList: return result, json.Unmarshal(body, &result). Go leaves open
\* whether the operand result is read before or after the call that fills
\* it: a build may return the nil slice or the decoded one.
Unmarshal(t) ==
    /\ th[t].pc = "Unmarshal"
    /\ \E after \in BOOLEAN :
          th' = [th EXCEPT ![t].recs = IF after THEN Decoded(th[t].body)
                                       ELSE <<>>,
                           ![t].err = IF DecodeFails(th[t].body)
                                      THEN "decode" ELSE "",
                           ![t].pc = "idle"]
    /\ UNCHANGED <<clientVars, tokenVars, streamVars, calls>>

GetListStep(t) ==
    \/ CallGetList(t)
    \/ APIPathOnce(t)
    \/ NewRequest(t)
    \/ DoCalled(t)
    \/ GetListDo(t)
    \/ ReadAll(t)
    \/ GetListStatus(t)
    \/ Unmarshal(t)

(* --------------------------- BuildEvents ------------------------------- *)
\* The goroutine of the stream has not ended.
Streaming == s.pc \notin {"none", "done"}

\* A goroutine calls BuildEvents with a context of its own (the caller opens
\* a stream once the one before has ended); its first step is APIPath.
CallBuildEvents(t) ==
    /\ ~Streaming
    /\ Begin(t, "BuildEvents", "APIPath")
    /\ s' = NoStream
    /\ UNCHANGED <<clientVars, tokenVars, nTasks>>

\* A slip in BuildEvents: the status of the response is not looked at.
OpensOnAnyStatus(err, status) == err = ""

\* BuildEvents goes on to stream when client.Do returned no error and the
\* status is 200.
Opens(err, status) == err = "" /\ status = StatusOK

\* BuildEvents: client.Do returned. On an error return nil, err; on a status
\* other than 200 return nil and an httpError with the status; otherwise
\* make the reader and the channel, start sendBuildEvents, return the channel.
BuildEventsDo(t) ==
    /\ th[t].pc = "DoReturn"
    /\ th[t].op = "BuildEvents"
    /\ IF Opens(th[t].err, th[t].status)
       THEN /\ \E feed \in Feeds :
                  s' = [NoStream EXCEPT !.pc = "check", !.feed = feed,
                                        !.cancelled = s.cancelled,
                                        !.cancelAt = s.cancelAt]
            /\ nTasks' = nTasks + 1
            /\ th' = [th EXCEPT ![t].out = "chan", ![t].spawned = TRUE,
                                ![t].pc = "idle"]
       ELSE /\ th' = [th EXCEPT ![t].err = IF th[t].err # "" THEN @ ELSE "http",
                                ![t].errStatus = IF th[t].err # "" THEN 0
                                                 ELSE th[t].status,
                                ![t].pc = "idle"]
            /\ UNCHANGED streamVars
    /\ UNCHANGED <<clientVars, tokenVars, calls>>

\* json.Unmarshal(event.Data, &message) fails on a payload that is not the
\* JSON of a BuildEvent.
UnmarshalFails(event) == event = "bad"

\* Where sendBuildEvents is with respect to its next read: "open" before it
\* has started, "check" on its way to the ctx.Err() check with no event in
\* hand, "Next" past the check and in rc.Next(), "held" holding an event it
\* has read and not yet handed over.
CancelAt ==
    CASE s.pc = "none" -> "open"
      [] s.pc = "check" -> "check"
      [] s.pc = "Unmarshal" /\ UnmarshalFails(s.event) -> "check"
      [] s.pc = "Next" -> "Next"
      [] OTHER -> "held"

\* The caller cancels the context it gave BuildEvents.
Cancel ==
    /\ ~s.cancelled
    /\ Streaming \/ \E t \in Threads :
                       th[t].op = "BuildEvents" /\ th[t].pc # "idle"
    /\ s' = [s EXCEPT !.cancelled = TRUE, !.cancelAt = CancelAt,
                      !.cancelPos = s.pos]
    /\ UNCHANGED <<clientVars, tokenVars, th, nTasks, calls>>

\* A slip in sendBuildEvents: the context is not looked at before a read.
TaskCheckSkipped ==
    /\ s.pc = "check"
    /\ s' = [s EXCEPT !.pc = "Next"]
    /\ UNCHANGED <<clientVars, tokenVars, th, nTasks, calls>>

\* A slip in sendBuildEvents: the cancellation branch closes the channel
\* itself, and the deferred close(c) closes it again.
TaskCheckClosesTwice ==
    /\ s.pc = "check"
    /\ s' = IF s.cancelled
            THEN [s EXCEPT !.rcClosed = TRUE, !.closed = TRUE,
                           !.closes = @ + 2, !.pc = "done"]
            ELSE [s EXCEPT !.pc = "Next"]
    /\ UNCHANGED <<clientVars, tokenVars, th, nTasks, calls>>

\* sendBuildEvents: if err := ctx.Err(); err != nil: close the reader and
\* return (the deferred close(c) closes the channel).
TaskCheck ==
    /\ s.pc = "check"
    /\ s' = IF s.cancelled
            THEN [s EXCEPT !.rcClosed = TRUE, !.closed = TRUE,
                           !.closes = @ + 1, !.pc = "done"]
            ELSE [s EXCEPT !.pc = "Next"]
    /\ UNCHANGED <<clientVars, tokenVars, th, nTasks, calls>>

\* A slip in sendBuildEvents: the name of the event is not looked at.
EndsOnError(kind) == kind = "err"

\* The event named "end", or a failed read, ends sendBuildEvents.
Ends(kind) == kind \in {"end", "err"}

\* sendBuildEvents: event, err := rc.Next() yields what the service sent
\* next; if err != nil || event.Name == "end": return.
TaskNext ==
    /\ s.pc = "Next"
    /\ s.pos < Len(s.feed)
    /\ s' = IF Ends(s.feed[s.pos + 1])
            THEN [s EXCEPT !.pos = @ + 1, !.closed = TRUE,
                           !.closes = @ + 1, !.pc = "done"]
            ELSE [s EXCEPT !.pos = @ + 1, !.event = s.feed[s.pos + 1],
                           !.pc = "Unmarshal"]
    /\ UNCHANGED <<clientVars, tokenVars, th, nTasks, calls>>

\* sendBuildEvents: rc.Next() fails because the request's context is
\* cancelled, which aborts the read of the response body: return.
TaskNextAborted ==
    /\ s.pc = "Next"
    /\ s.cancelled
    /\ s' = [s EXCEPT !.closed = TRUE, !.closes = @ + 1, !.pc = "done"]
    /\ UNCHANGED <<clientVars, tokenVars, th, nTasks, calls>>

\* The BuildEvent that a payload decodes to.
Message(event) == IF event = "A" THEN "BuildEvent A" ELSE "BuildEvent B"

\* A slip in sendBuildEvents: a payload that does not decode ends the stream.
TaskUnmarshalReturns ==
    /\ s.pc = "Unmarshal"
    /\ s' = IF UnmarshalFails(s.event)
            THEN [s EXCEPT !.closed = TRUE, !.closes = @ + 1, !.pc = "done"]
            ELSE [s EXCEPT !.message = Message(s.event), !.pc = "send"]
    /\ UNCHANGED <<clientVars, tokenVars, th, nTasks, calls>>

\* sendBuildEvents: json.Unmarshal(event.Data, &message); on an error
\* continue, otherwise go on to send.
TaskUnmarshal ==
    /\ s.pc = "Unmarshal"
    /\ s' = IF UnmarshalFails(s.event)
            THEN [s EXCEPT !.pc = "check"]
            ELSE [s EXCEPT !.message = Message(s.event), !.pc = "send"]
    /\ UNCHANGED <<clientVars, tokenVars, th, nTasks, calls>>

\* A slip in sendBuildEvents: after a send the loop goes straight to the
\* next read, the context being looked at only before the first.
ReceiveThenRead ==
    /\ s.pc = "send"
    /\ s' = [s EXCEPT !.delivered = Append(@, s.message),
                      !.late = IF s.cancelled THEN @ + 1 ELSE @,
                      !.pc = "Next"]
    /\ UNCHANGED <<clientVars, tokenVars, th, nTasks, calls>>

\* sendBuildEvents: c <- message, on the unbuffered channel: the send
\* completes when the consumer receives.
Receive ==
    /\ s.pc = "send"
    /\ s' = [s EXCEPT !.delivered = Append(@, s.message),
                      !.late = IF s.cancelled THEN @ + 1 ELSE @,
                      !.pc = "check"]
    /\ UNCHANGED <<clientVars, tokenVars, th, nTasks, calls>>

\* The steps of sendBuildEvents that need nobody else.
TaskStep ==
    \/ TaskCheck
    \/ TaskNext
    \/ TaskNextAborted
    \/ TaskUnmarshal

BuildEventsStep(t) ==
    \/ CallBuildEvents(t)
    \/ APIPathOnce(t)
    \/ NewRequest(t)
    \/ DoCalled(t)
    \/ BuildEventsDo(t)

TokenStep(t) ==
    \/ CallToken(t)
    \/ TokenCalled(t)
    \/ TokenReturn(t)

\* The client as constructed, with configuration and environment from the
\* given sets.
InitClient(cfgs, envs) ==
    /\ cfg \in cfgs
    /\ env \in envs
    /\ runLoadEnvironment = "new"
    /\ runSetupClient = "new"
    /\ transport = 0
    /\ loadRuns = 0
    /\ setupRuns = 0

\* A client given its URL and credentials, in an empty environment.
GivenCfg == [URL |-> "url", Username |-> "user", Password |-> "pass"]
NoEnv == [CONCOURSE_URL |-> Unset, CONCOURSE_USERNAME |-> Unset,
          CONCOURSE_PASSWORD |-> Unset]

Init == InitClient({GivenCfg}, {NoEnv}) /\ InitToken /\ InitThreads

\* One goroutine calls Token again and again while the clock runs.
NextSeq == Tick \/ TokenStep(1)
SpecSeq == Init /\ [][NextSeq]_vars

\* Several goroutines call Token concurrently while the clock runs.
NextToken == Tick \/ \E t \in Threads : TokenStep(t)
SpecToken == Init /\ [][NextToken]_vars

\* Several goroutines call Do and APIPath concurrently.
NextClient ==
    \E t \in Threads :
        \/ CallDo(t)
        \/ DoCalled(t)
        \/ DoReturn(t)
        \/ CallAPIPath(t)
        \/ APIPathOnce(t)
        \/ APIPathReturn(t)
SpecClient == Init /\ [][NextClient]_vars

\* A client with any configuration, in any environment; several goroutines
\* call APIPath concurrently and nobody calls Do.
InitEnv == InitClient(Cfgs, Envs) /\ InitToken /\ InitThreads
NextPath ==
    \E t \in Threads :
        \/ CallAPIPath(t)
        \/ APIPathOnce(t)
        \/ LoadEnvironment(t)
        \/ APIPathReturn(t)
SpecPath == InitEnv /\ [][NextPath]_vars

\* A client given nothing, in an environment that sets all three variables;
\* several goroutines call Token, Do and APIPath concurrently.
EmptyCfg == [URL |-> "", Username |-> "", Password |-> ""]
FullEnv == [CONCOURSE_URL |-> "envurl", CONCOURSE_USERNAME |-> "envuser",
            CONCOURSE_PASSWORD |-> "envpass"]
InitFromEnv == InitClient({EmptyCfg}, {FullEnv}) /\ InitToken /\ InitThreads
NextAny ==
    \E t \in Threads :
        \/ TokenStep(t)
        \/ CallDo(t)
        \/ DoCalled(t)
        \/ DoReturn(t)
        \/ CallAPIPath(t)
        \/ APIPathOnce(t)
        \/ APIPathReturn(t)
SpecAny == InitFromEnv /\ [][NextAny]_vars

\* A client whose URL was given, given malformed, or not given.
StreamCfgs == {GivenCfg, [GivenCfg EXCEPT !.URL = "badurl"],
               [GivenCfg EXCEPT !.URL = ""]}
InitStream == InitClient(StreamCfgs, {NoEnv}) /\ InitToken /\ InitThreads

\* One goroutine fetches lists.
NextList == GetListStep(1)
SpecList == InitStream /\ [][NextList]_vars

\* One goroutine opens event streams, one after another; the consumer
\* receives or not, the caller cancels or not.
NextStream ==
    \/ BuildEventsStep(1)
    \/ TaskStep
    \/ Receive
    \/ Cancel
SpecStream == InitStream /\ [][NextStream]_vars

\* The Go scheduler runs a goroutine that can run: sendBuildEvents takes its
\* next step whenever that step needs nobody else.
FairStream == SpecStream /\ WF_vars(TaskStep)

(* ------------------------------ claims -------------------------------- *)

(* C1 *)
\* A goroutine is at the return statement of a call of Token whose exchange,
\* if it made one, was not rejected: th[t].token is what it returns.
ReturnsToken(t) ==
    th[t].pc = "TokenReturn" /\ th[t].op = "Token" /\ th[t].err = ""

\* C1 as stated: with no token cached at first and an identity provider that
\* rejects nothing, two sequential Token calls, the second made before the
\* token's expiry instant, perform one exchange in total: the first call
\* performs it and stores the result, the second performs none and returns
\* the same token.
C1_BeforeExpiryOneExchange ==
    ~rejects /\ ReturnsToken(1) =>
        /\ calls = 1 =>
              exchanges = 1 /\ th[1].nx = 1 /\ th[1].token.id = 1
              /\ token = th[1].token
        /\ calls = 2 /\ th[1].early =>
              exchanges = 1 /\ th[1].nx = 0 /\ th[1].token.id = 1
              /\ token = th[1].token

\* C1 amended: the same, for a second call made while the token is valid,
\* that is no later than ExpiryDelta before its expiry instant (or the token
\* has no expiry).
C1_WhileValidOneExchange ==
    ~rejects /\ ReturnsToken(1) =>
        /\ calls = 1 =>
              exchanges = 1 /\ th[1].nx = 1 /\ th[1].token.id = 1
              /\ token = th[1].token
        /\ calls = 2 /\ th[1].saw = "valid" =>
              exchanges = 1 /\ th[1].nx = 0 /\ th[1].token.id = 1
              /\ token = th[1].token

\* C1's case: the second of two calls returns the first call's token, which
\* has an expiry, after the clock has advanced.
C1_Witness ==
    /\ ~rejects /\ ReturnsToken(1) /\ calls = 2
    /\ th[1].saw = "valid" /\ th[1].token.id = 1 /\ th[1].token.expiry # 0
    /\ now > 0 /\ exchanges = 1

(* C2 *)
\* A goroutine is at the return statement of a Token call that found in the
\* cache a token that was no longer valid, and whose exchange succeeded.
RefreshReturns(t) == ReturnsToken(t) /\ th[t].saw = "stale"

\* C2 as stated: a Token call that finds the cached token past its expiry or
\* inside the margin, and whose exchange succeeds, performs one exchange,
\* returns the token it was granted, and when it returns the cache holds
\* that token.
C2_RefreshLeavesOwnToken ==
    \A t \in Threads :
        RefreshReturns(t) =>
            /\ th[t].nx = 1 /\ th[t].xid # 0
            /\ th[t].token.id = th[t].xid
            /\ token = th[t].token

\* C2 amended: such a call performs one exchange, returns the token it was
\* granted and has stored it; when it returns the cache holds that token
\* unless an overlapping Token call has stored its own since.
C2_RefreshStoresOwnToken ==
    \A t \in Threads :
        RefreshReturns(t) =>
            /\ th[t].nx = 1 /\ th[t].xid # 0
            /\ th[t].token.id = th[t].xid
            /\ th[t].mine => token = th[t].token
            /\ ~th[t].mine => token # NilToken /\ token.id # th[t].xid

\* C2's case: a call that found a token past its expiry instant returns a
\* fresh one that the cache holds.
C2_Witness ==
    \E t \in Threads :
        /\ RefreshReturns(t) /\ ~th[t].early /\ th[t].nx = 1
        /\ th[t].token.id = th[t].xid /\ token = th[t].token

(* C3 *)
\* A goroutine is in a call and past the line of Do or APIPath that runs
\* loadEnvironment once.
PastLoad(t) ==
    /\ th[t].op \in {"Do", "APIPath"}
    /\ th[t].pc \notin {"idle", "APIPath", "Do", "loadEnvironment"}

\* A goroutine is in a call of Do and past the line that runs setupClient
\* once.
PastSetup(t) ==
    /\ th[t].op = "Do"
    /\ th[t].pc \in {"ClientDo", "Token", "skyMarshalToken", "Store",
                     "TokenReturn", "RoundTrip", "DoReturn"}

\* C3: whatever the interleaving of concurrent calls of Do and APIPath,
\* loadEnvironment and setupClient each run at most once and the transport
\* is wrapped at most once; a call that is past the run-once line finds the
\* function run exactly once and complete.
C3_SetupRunsOnce ==
    /\ loadRuns <= 1 /\ setupRuns <= 1 /\ transport <= 1
    /\ \A t \in Threads :
          /\ PastLoad(t) => loadRuns = 1 /\ runLoadEnvironment = "done"
          /\ PastSetup(t) =>
                setupRuns = 1 /\ transport = 1 /\ runSetupClient = "done"

\* C3's case: two goroutines are in the client's first two calls, both of
\* Do, at once; one has run setupClient while the other was held at the
\* run-once line.
C3_Witness ==
    \E t, u \in Threads :
        /\ t # u /\ calls = 2
        /\ th[t].op = "Do" /\ th[t].pc = "ClientDo"
        /\ th[u].op = "Do" /\ th[u].pc = "DoSetup"
        /\ setupRuns = 1 /\ loadRuns = 1

(* C4 *)
\* The position of the first "end" of a feed whose events before it all
\* decode; 0 if the feed is not of this shape.
CleanEnd(feed) ==
    IF \E k \in 1 .. Len(feed) :
          feed[k] = "end" /\ \A i \in 1 .. k - 1 : feed[i] \in {"A", "B"}
    THEN CHOOSE k \in 1 .. Len(feed) :
          feed[k] = "end" /\ \A i \in 1 .. k - 1 : feed[i] \in {"A", "B"}
    ELSE 0

\* The BuildEvents of the events before position k.
MessagesBefore(feed, k) == [i \in 1 .. k - 1 |-> Message(feed[i])]

IsPrefix(a, b) == Len(a) <= Len(b) /\ \A i \in 1 .. Len(a) : a[i] = b[i]

\* C4: when the reader yields decodable events and then "end", the channel
\* yields those events in the reader's order, each once, never anything
\* else; and when the channel is closed with no cancellation it has yielded
\* all of them and nothing was read past "end".
C4_YieldsEventsBeforeEnd ==
    s.pc # "none" /\ CleanEnd(s.feed) > 0 =>
        /\ IsPrefix(s.delivered, MessagesBefore(s.feed, CleanEnd(s.feed)))
        /\ s.closed /\ ~s.cancelled =>
              /\ s.delivered = MessagesBefore(s.feed, CleanEnd(s.feed))
              /\ s.pos = CleanEnd(s.feed)
              /\ s.pc = "done"

\* C4's case: the reader yielded A, B, end; the channel yielded A, B and is
\* closed.
C4_Witness ==
    /\ s.feed = <<"A", "B", "end">> /\ s.closed /\ ~s.cancelled
    /\ s.delivered = <<Message("A"), Message("B")>>

(* C5 *)
RECURSIVE Forwarded(_)
\* The BuildEvents of the decodable events of a sequence of events, in order.
Forwarded(events) ==
    IF events = <<>> THEN <<>>
    ELSE IF Head(events) \in {"A", "B"}
         THEN <<Message(Head(events))>> \o Forwarded(Tail(events))
         ELSE Forwarded(Tail(events))

\* The events sendBuildEvents has read and is done with.
Handled ==
    SubSeq(s.feed, 1, IF s.pc \in {"Unmarshal", "send"} THEN s.pos - 1
                      ELSE s.pos)

\* C5: the channel has yielded exactly the decodable events among those
\* read so far, in order: an event that does not decode is left out and
\* every decodable one after it is yielded; and sendBuildEvents ends only
\* on "end", a failed read or cancellation, never on such an event.
C5_UndecodableSkipped ==
    s.pc # "none" =>
        /\ s.delivered = Forwarded(Handled)
        /\ s.pc = "done" =>
              \/ s.cancelled
              \/ s.pos > 0 /\ s.feed[s.pos] \in {"end", "err"}

\* C5's case: the reader yielded an undecodable event, then A, then "end";
\* the channel yielded A and is closed.
C5_Witness ==
    /\ s.feed = <<"bad", "A", "end">> /\ s.closed /\ ~s.cancelled
    /\ s.delivered = <<Message("A")>>

(* C6 *)
\* The context was cancelled after the consumer had received an event and
\* while a decodable event was still to be read.
CancelledBetweenEvents ==
    /\ s.cancelled
    /\ Len(s.delivered) - s.late >= 1
    /\ s.cancelPos < Len(s.feed)
    /\ s.feed[s.cancelPos + 1] \in {"A", "B"}

\* C6 as stated: when the caller cancels after the consumer received A and
\* before B is read, the channel is closed without B delivered, and the
\* reader is closed by then.
C6_CancelBeforeReadStopsStream ==
    CancelledBetweenEvents /\ s.cancelAt \in {"check", "Next"} /\ s.closed =>
        s.late = 0 /\ s.pos = s.cancelPos /\ s.rcClosed

\* C6 amended: the same for a cancellation that comes before the check of
\* ctx.Err() that precedes the read of B.
C6_CancelBeforeCheckStopsStream ==
    CancelledBetweenEvents /\ s.cancelAt = "check" /\ s.closed =>
        s.late = 0 /\ s.pos = s.cancelPos /\ s.rcClosed

\* C6's case: A was received, the caller cancelled before the check, and
\* the channel is closed with B unread.
C6_Witness ==
    /\ s.feed = <<"A", "B">> /\ s.cancelled /\ s.cancelAt = "check"
    /\ s.closed /\ s.delivered = <<Message("A")>> /\ s.rcClosed

(* C7 *)
\* C7: a send that is blocked when the context is cancelled ends: the
\* consumer receives, or sendBuildEvents gives up and closes the channel.
C7_CancelEndsBlockedSend ==
    (s.pc = "send" /\ s.cancelled) ~> (s.closed \/ s.pc # "send")

(* C8 *)
\* The reader has yielded "end" or failed.
StreamOver == s.pos > 0 /\ s.feed[s.pos] \in {"end", "err"}

\* C8: a BuildEvents call that returns a channel has started one
\* sendBuildEvents, and a started sendBuildEvents ends, closing the channel,
\* once the reader has yielded "end", a read has failed or the caller has
\* cancelled.
C8_TaskEnds ==
    /\ [](th[1].pc = "idle" /\ th[1].out = "chan" =>
             s.pc # "none" /\ nTasks >= 1)
    /\ (s.pc # "none" /\ (StreamOver \/ s.cancelled))
          ~> (s.pc = "done" /\ s.closed)

(* C9 *)
\* C9: BuildEvents returns a channel exactly when client.Do returned a
\* response of status 200, and then it has started sendBuildEvents; in
\* every other case it returns an error and no channel, has started no
\* goroutine and nothing was read from a response body.
C9_ChannelIffStatusOK ==
    \A t \in Threads :
        th[t].pc = "idle" /\ th[t].op = "BuildEvents" =>
            /\ th[t].out = "chan" <=>
                  th[t].status = StatusOK /\ th[t].err = ""
            /\ th[t].out = "chan" => th[t].spawned /\ s.pc # "none"
            /\ th[t].out # "chan" =>
                  /\ th[t].out = "" /\ th[t].err # ""
                  /\ ~th[t].spawned /\ s.pc = "none"
                  /\ ~th[t].bodyRead /\ s.pos = 0
            /\ calls = 1 => nTasks = IF th[t].out = "chan" THEN 1 ELSE 0

\* C9's case: BuildEvents has returned on a response of status 404.
C9_Witness ==
    \E t \in Threads :
        /\ th[t].pc = "idle" /\ th[t].op = "BuildEvents"
        /\ th[t].status = 404 /\ th[t].err = "http" /\ th[t].errStatus = 404
        /\ th[t].out = "" /\ nTasks = 0

(* C10 *)
\* A list fetch has returned after a response of a status other than 200.
ReturnedNot200(t) ==
    /\ th[t].pc = "idle" /\ th[t].op = "getList"
    /\ th[t].status \notin {0, StatusOK}

\* C10 as stated: every list fetch whose response status is not 200 returns
\* an httpError with that status and the bytes of the response body, and no
\* records.
C10_Not200ReturnsHTTPError ==
    \A t \in Threads :
        ReturnedNot200(t) =>
            /\ th[t].err = "http" /\ th[t].errStatus = th[t].status
            /\ th[t].errBody = th[t].body /\ th[t].recs = <<>>

\* C10 amended: the same for every such list fetch whose response body was
\* read without an error; when io.ReadAll fails the fetch returns that
\* error, and no records.
C10_Not200BodyReadReturnsHTTPError ==
    \A t \in Threads :
        ReturnedNot200(t) =>
            /\ th[t].recs = <<>>
            /\ th[t].err \in {"http", "read"}
            /\ th[t].err # "read" =>
                  /\ th[t].err = "http" /\ th[t].errStatus = th[t].status
                  /\ th[t].errBody = th[t].body

\* C10's case: a list fetch has returned the httpError of a 404 whose body
\* is not JSON.
C10_Witness ==
    \E t \in Threads :
        /\ ReturnedNot200(t) /\ th[t].err = "http" /\ th[t].errStatus = 404
        /\ th[t].body = <<"junk">> /\ th[t].errBody = <<"junk">>

(* C11 *)
\* A list fetch has returned.
ListReturned(t) == th[t].pc = "idle" /\ th[t].op = "getList"

\* C11: a list fetch that returns an error returns no records, also when
\* leading elements of the body decoded before the failure; and a list fetch
\* hands at most one request to the transport, exactly one when it got a
\* response.
C11_ErrorReturnsNoRecords ==
    \A t \in Threads :
        ListReturned(t) =>
            /\ th[t].err # "" => th[t].recs = <<>>
            /\ th[t].sent <= 1
            /\ th[t].status # 0 => th[t].sent = 1

(* C12 *)
\* Every Token call made so far has returned.
AllReturned == \A t \in Threads : th[t].pc = "idle"

\* C12 as stated: once the Token calls have all returned, none of their
\* exchanges rejected, the cache holds the result of the exchange that
\* completed most recently (ids are given in the order of completion).
C12_CacheHoldsLatestExchange ==
    AllReturned /\ ~rejects /\ exchanges >= 1 => token.id = exchanges

\* C12 amended: once they have all returned the cache holds the result of
\* the exchange whose call stored last, the result of one of their
\* exchanges.
C12_CacheHoldsLastStored ==
    AllReturned /\ ~rejects /\ exchanges >= 1 =>
        /\ token # NilToken /\ token.id = stored
        /\ token.id \in 1 .. exchanges

\* C12's case: two Token calls overlapped on an empty cache (the clock has
\* not moved, yet there were two exchanges), and the cache holds the result
\* of the exchange that completed first, stored last.
C12_Witness ==
    /\ AllReturned /\ ~rejects /\ now = 0 /\ calls = 2
    /\ exchanges = 2 /\ token.id = 1 /\ stored = 1

(* C13 *)
\* A goroutine is at the return statement of a Token call whose exchange
\* was rejected.
RejectedReturns(t) ==
    th[t].pc = "TokenReturn" /\ th[t].op = "Token" /\ th[t].err = "auth"

\* C13: a Token call whose exchange is rejected writes nothing to the cache
\* in any of its steps (only a call at its Store does), goes from the
\* rejection straight to its return with the error and no token, and has
\* made one exchange attempt.
C13_RejectedExchangeLeavesCache ==
    [][\A t \in Threads :
          /\ th'[t].pc # th[t].pc /\ th[t].pc # "Store" => token' = token
          /\ RejectedReturns(t)' /\ ~RejectedReturns(t) =>
                /\ th[t].pc = "skyMarshalToken" /\ token' = token
                /\ th'[t].token = NilToken /\ th'[t].nx = 1
                /\ exchanges' = exchanges + 1
          /\ RejectedReturns(t) /\ th'[t].pc # th[t].pc =>
                th'[t].pc = "idle" /\ token' = token
                /\ exchanges' = exchanges]_vars

\* C13's case: a Token call that found a token no longer valid returns the
\* rejection, and the cache still holds that token.
C13_Witness ==
    \E t \in Threads :
        /\ RejectedReturns(t) /\ th[t].saw = "stale" /\ th[t].nx = 1
        /\ th[t].token = NilToken /\ token # NilToken

(* C14 *)
\* C14: a step changes a configuration field only if the field is empty and
\* its environment variable is set, and then to the variable's value; a
\* field that is not empty keeps its value; the step that runs
\* loadEnvironment decides each field from that field and its own variable
\* alone; and the fill-in changes nothing of the environment.
C14_FillInOnlyEmptyFields ==
    [][/\ \A f \in Fields :
             /\ cfg'[f] # cfg[f] =>
                   /\ cfg[f] = "" /\ env[EnvVar[f]] # Unset
                   /\ cfg'[f] = env[EnvVar[f]]
             /\ cfg[f] # "" => cfg'[f] = cfg[f]
             /\ loadRuns' # loadRuns =>
                   cfg'[f] = IF cfg[f] = "" /\ env[EnvVar[f]] # Unset
                             THEN env[EnvVar[f]] ELSE cfg[f]
       /\ env' = env]_vars

\* C14's case: the fill-in has run on a client whose URL was given, whose
\* username was empty and whose password was empty, in an environment that
\* sets the URL and the username but not the password: the URL is kept, the
\* username filled in, the password left empty.
C14_Witness ==
    /\ loadRuns = 1 /\ runLoadEnvironment = "done"
    /\ env = [CONCOURSE_URL |-> "envurl", CONCOURSE_USERNAME |-> "envuser",
              CONCOURSE_PASSWORD |-> Unset]
    /\ cfg = [URL |-> "url", Username |-> "envuser", Password |-> ""]

(* C15 *)
\* C15: when there were calls of APIPath and none of Do, and every call has
\* returned, the fill-in has run, the transport is not wrapped and
\* setupClient has not begun, and there was no exchange, no cached token and
\* no request handed to the transport; APIPath never runs setupClient.
C15_APIPathFillsInOnly ==
    /\ setupRuns = 0 /\ transport = 0 /\ runSetupClient = "new"
    /\ exchanges = 0 /\ token = NilToken /\ nTasks = 0
    /\ \A t \in Threads : th[t].sent = 0 /\ th[t].nx = 0
    /\ calls >= 1 /\ (\A t \in Threads : th[t].pc = "idle") =>
          loadRuns = 1 /\ runLoadEnvironment = "done"

\* C15's case: three calls of APIPath have returned, the fill-in has run
\* once and the transport is not wrapped.
C15_Witness ==
    /\ calls = 3 /\ \A t \in Threads : th[t].pc = "idle"
    /\ loadRuns = 1 /\ runLoadEnvironment = "done"
    /\ transport = 0 /\ runSetupClient = "new"

(* C16 *)
\* C16: whenever sendBuildEvents has ended, by "end", a failed read or
\* cancellation, the reader is closed.
C16_ReaderClosedOnEveryExit == s.pc = "done" => s.rcClosed

(* C17 *)
\* A goroutine is in a call of Do and has handed, or is about to hand, its
\* request to client.Client.
Delegates(t) ==
    /\ th[t].op = "Do"
    /\ th[t].pc \in {"ClientDo", "Token", "skyMarshalToken", "Store",
                     "TokenReturn", "RoundTrip", "DoReturn"}

\* C17: a call of Do hands its request to client.Client only when the
\* fill-in and the wrapping have both run to completion, whoever ran them;
\* a request reaches the base transport only through the wrapper, carrying
\* a token.
C17_NoDispatchBeforeSetup ==
    \A t \in Threads :
        /\ Delegates(t) =>
              /\ runLoadEnvironment = "done" /\ loadRuns = 1
              /\ runSetupClient = "done" /\ setupRuns = 1 /\ transport = 1
        /\ th[t].op = "Do" /\ th[t].pc = "RoundTrip" =>
              th[t].auth /\ th[t].layer = 0
        /\ th[t].op = "Do" /\ th[t].sent > 0 => th[t].auth

\* C17's case: the client's first two calls, both of Do, are at the base
\* transport at once, each with a token, and setupClient has run once: one
\* of them did not run it.
C17_Witness ==
    \E t, u \in Threads :
        /\ t # u /\ calls = 2 /\ setupRuns = 1 /\ loadRuns = 1
        /\ th[t].op = "Do" /\ th[t].pc = "RoundTrip" /\ th[t].auth
        /\ th[u].op = "Do" /\ th[u].pc = "RoundTrip" /\ th[u].auth

(* C18 *)
\* The reads that were under way when the context was cancelled: one when
\* sendBuildEvents was past its check and in rc.Next(), none otherwise.
ReadsUnderWay == IF s.cancelAt = "Next" THEN 1 ELSE 0

\* C18: once the context is cancelled sendBuildEvents completes no read
\* other than one that was under way, and the consumer receives at most one
\* event after the cancellation: the event sendBuildEvents held, or the
\* event of the read that was under way.
C18_AtMostOneEventAfterCancel ==
    s.cancelled /\ s.pc # "none" =>
        /\ s.pos <= s.cancelPos + ReadsUnderWay
        /\ s.late <= 1
        /\ s.late = 1 =>
              /\ s.cancelAt \in {"held", "Next"}
              /\ s.delivered[Len(s.delivered)] =
                    Message(s.feed[s.cancelPos + ReadsUnderWay])
        /\ s.pc = "done" /\ s.cancelAt = "check" => s.late = 0

\* C18's case: the caller cancelled while sendBuildEvents held A; the
\* consumer then received A, and the stream was closed with B unread.
C18_Witness ==
    /\ s.feed = <<"A", "B">> /\ s.cancelled /\ s.cancelAt = "held"
    /\ s.late = 1 /\ s.delivered = <<Message("A")>>
    /\ s.pos = 1 /\ s.pc = "done" /\ s.closed

(* C19 *)
\* C19: the channel of a stream is closed when and only when its
\* sendBuildEvents has returned, by one close; BuildEvents, which made the
\* channel, never closes it; and a step that delivers an event is taken on
\* an open channel and leaves it open.
C19_ChannelClosedOnce ==
    [][/\ s'.closes <= 1
       /\ s'.closed <=> s'.closes = 1
       /\ s'.closed <=> s'.pc = "done"
       /\ s'.closes # s.closes /\ s'.closes > 0 =>
             /\ s.pc \in {"check", "Next", "Unmarshal"} /\ th' = th
             /\ s'.delivered = s.delivered
       /\ s'.delivered # s.delivered /\ s'.delivered # <<>> =>
             ~s.closed /\ ~s'.closed /\ s.pc = "send"
       /\ s.closed /\ s'.pc # "none" =>
             s'.closed /\ s'.delivered = s.delivered]_vars

\* C19's case: a stream of an event, a malformed event and a failed read,
\* cancelled by the caller on the way: the channel yielded the event and
\* has been closed once.
C19_Witness ==
    /\ s.feed = <<"A", "bad", "err">> /\ s.pos = 3 /\ s.cancelled
    /\ s.delivered = <<Message("A")>> /\ s.pc = "done"
    /\ s.closed /\ s.closes = 1

(* C20 *)
\* C20: a password-grant exchange is attempted only when the fill-in has
\* run to completion, so that skyMarshalToken reads the filled-in URL,
\* username and password.
C20_NoExchangeBeforeFillIn ==
    [][exchanges' # exchanges =>
          /\ runLoadEnvironment = "done" /\ loadRuns = 1
          /\ \A f \in Fields : cfg[f] = FillIn(cfg[f], env[EnvVar[f]])]_vars

====
